---- MODULE Spec2Model ----
(***************************************************************************)
(* The selectionModel directive of angular-selection-model                 *)
(* (src/src/scripts/services/selection-model-options.js).                  *)
(*                                                                         *)
(* One ngRepeat list is modelled.  Every rendered row runs the directive's *)
(* link function with its own smItem; all rows share selectedItemsList,    *)
(* the collection and the selectionStack service.  Items are modelled by   *)
(* their track-by value, every comparison of the source being by track-by. *)
(*                                                                         *)
(* Every action is one synchronous pass of the code: one click, with every *)
(* delivery of it to handleClick and the digests those start, or one       *)
(* digest started by the host after it changed a selected field or the     *)
(* filter.                                                                 *)
(***************************************************************************)
EXTENDS Integers, Sequences, FiniteSets

\* Number of items in the host collection.
NumItems == 3

\* The value selectionStack.peek returns when nothing was pushed.
Undefined == 0

Modes == {"single", "multi", "multi-additive"}
Types == {"basic", "checkbox"}

VARIABLES
  allItems,           \* the unfiltered collection, in order (getAllItems)
  visibleItems,       \* the filtered collection, as rendered (getAllVisibleItems)
  selectedItemsList,  \* the shared selected-items array
  selectedAttribute,  \* item -> value of item[selectedAttribute]
  watchLast,          \* item -> last value seen by the row's $watch
  stacks,             \* selectionStack: stack id -> most recently pushed item
  smMode, smType,     \* the directive's configuration
  scenario            \* how many clicks of the end-to-end scenario the
                      \* behaviour has made so far, -1 once it left it

vars == <<allItems, visibleItems, selectedItemsList, selectedAttribute, watchLast,
          stacks, smMode, smType, scenario>>

----------------------------------------------------------------------------
\* Sequence helpers

Range(s) == {s[i] : i \in 1..Len(s)}

\* Array.prototype.splice(index, 1) with a 0-based index
Splice(s, index) == [i \in 1..(Len(s) - 1) |-> IF i <= index THEN s[i] ELSE s[i + 1]]

RECURSIVE Filter(_, _)
Filter(s, keep) ==
  IF s = <<>> THEN <<>>
  ELSE IF Head(s) \in keep THEN <<Head(s)>> \o Filter(Tail(s), keep)
  ELSE Filter(Tail(s), keep)

----------------------------------------------------------------------------
\* Configuration

isMultiMode(mode) == mode \in {"multi", "multi-additive"}
isModeAdditive(mode) == mode = "multi-additive"

NullStackId == "null"
GroupStackId == "group"
StackIds == {NullStackId, GroupStackId}

\* null in single mode, else the id shared by the rows of the list
clickStackId(mode) == IF ~isMultiMode(mode) THEN NullStackId ELSE GroupStackId

----------------------------------------------------------------------------
\* selectionStack service

StackPush(stk, id, item) == [stk EXCEPT ![id] = item]
StackPeek(stk, id) == stk[id]

----------------------------------------------------------------------------
\* Pure helpers of the link function

\* 0-based index of the first element with the item's track-by value, or -1
RECURSIVE indexFrom(_, _, _)
\* the for loop of indexOfTrackBy, from the 1-based position i
indexFrom(array, item, i) ==
  IF i > Len(array) THEN -1
  ELSE IF array[i] = item THEN i - 1
  ELSE indexFrom(array, item, i + 1)

indexOfTrackBy(array, item) == indexFrom(array, item, 1)

\* indexOfTrackBy reads array[i][trackBy]: a TypeError when it reaches an
\* undefined element before a match
indexOfTrackByThrows(array, item) ==
  \E i \in 1..Len(array) :
    array[i] = Undefined /\ \A j \in 1..(i - 1) : array[j] # item

isSelected(list, item) == indexOfTrackBy(list, item) > -1

getAllItems == allItems
getAllVisibleItems == visibleItems

\* mutant: pushes without looking for the item
selectItemUnchecked(list, item) == Append(list, item)

selectItem(list, item) ==
  IF indexOfTrackBy(list, item) = -1 THEN Append(list, item) ELSE list

\* the inlined "index = indexOfTrackBy(..); if(index > -1) splice(index, 1)"
removeItem(list, item) ==
  LET index == indexOfTrackBy(list, item)
  IN IF index > -1 THEN Splice(list, index) ELSE list

updateSelectedAttributeValue(list, attr, visible) ==
  LET shown == Range(visible)
  IN [i \in DOMAIN attr |-> IF i \in shown THEN isSelected(list, i) ELSE attr[i]]

----------------------------------------------------------------------------
\* deselectAllItemsExcept

\* angular.isArray(selectedItemsList): the host binds an array
useSelectedArray == TRUE

\* The `except` argument: a single item, or an array of items
Single(item) == [isArray |-> FALSE, items |-> <<item>>]
Pair(a, b) == [isArray |-> TRUE, items |-> <<a, b>>]

NoThrow(list) == [list |-> list, threw |-> FALSE]
Thrown(list) == [list |-> list, threw |-> TRUE]

RECURSIVE deselectWalk(_, _, _, _, _)
\* the angular.forEach(allItems, ...) callback, over the items still to visit;
\* an exception ends the walk with the list as it is
deselectWalk(items, list, isRange, except, numItemsFound) ==
  IF items = <<>> THEN NoThrow(list)
  ELSE
    LET item == Head(items) IN
    IF isRange
    THEN IF indexOfTrackByThrows(except, item) THEN Thrown(list)
         ELSE LET ixItem == indexOfTrackBy(except, item) IN
              IF ixItem > -1
              THEN deselectWalk(Tail(items), selectItem(list, item), isRange,
                                Splice(except, ixItem), numItemsFound + 1)
              ELSE IF numItemsFound = 1
              THEN deselectWalk(Tail(items), selectItem(list, item), isRange,
                                except, numItemsFound)
              ELSE deselectWalk(Tail(items), removeItem(list, item), isRange,
                                except, numItemsFound)
    ELSE IF except[1] = Undefined THEN Thrown(list)
         ELSE IF item = except[1]
         THEN deselectWalk(Tail(items), selectItem(list, item), isRange,
                           except, numItemsFound)
         ELSE deselectWalk(Tail(items), removeItem(list, item), isRange,
                           except, numItemsFound)

deselectAllItemsExcept(list, except) ==
  deselectWalk(getAllItems,
               IF useSelectedArray THEN <<>> ELSE list,
               except.isArray /\ Len(except.items) = 2,
               except.items, 0)

----------------------------------------------------------------------------
\* selectItemsBetween

RECURSIVE betweenWalk(_, _, _, _, _, _)
\* the angular.forEach(getAllVisibleItems(), ...) callback
betweenWalk(items, list, lastItem, smItem, foundLastItem, foundThisItem) ==
  IF items = <<>> THEN list
  ELSE
    LET item == Head(items)
        fThis == foundThisItem \/ item = smItem
        fLast == foundLastItem \/ item = lastItem
        \* (foundLastItem + foundThisItem) === 1
        inRange == (fLast /\ ~fThis) \/ (~fLast /\ fThis)
    IN betweenWalk(Tail(items),
                   IF inRange \/ item = smItem \/ item = lastItem
                   THEN selectItem(list, item) ELSE list,
                   lastItem, smItem, fLast, fThis)

selectItemsBetween(list, lastItem, smItem) ==
  betweenWalk(getAllVisibleItems, list,
              IF lastItem = Undefined THEN smItem ELSE lastItem,
              smItem, FALSE, FALSE)

----------------------------------------------------------------------------
\* The $watch on item[selectedAttribute] and the digest that runs it.
\* A store st is [list, attr, last, stacks, calls, threw]; cfg is
\* [mode, type, onChange].

\* mutant: the single-mode clearing of the other selections is left out
watchListenerNoClear(cfg, st, smItem, newVal, oldVal) ==
  IF newVal = oldVal THEN st
  ELSE [st EXCEPT !.list = IF newVal THEN selectItem(@, smItem) ELSE removeItem(@, smItem),
                  !.calls = IF cfg.onChange THEN @ + 1 ELSE @]

\* mutant: a field that turned false leaves the item in the list
watchListenerNoRemove(cfg, st, smItem, newVal, oldVal) ==
  IF newVal = oldVal THEN st
  ELSE
    LET l1 == IF ~isMultiMode(cfg.mode) /\ newVal /\ ~oldVal
              THEN deselectAllItemsExcept(st.list, Single(smItem)).list
              ELSE st.list
        l2 == IF newVal THEN selectItem(l1, smItem) ELSE l1
    IN [st EXCEPT !.list = l2,
                  !.calls = IF cfg.onChange THEN @ + 1 ELSE @]

watchListener(cfg, st, smItem, newVal, oldVal) ==
  IF newVal = oldVal THEN st
  ELSE
    LET l1 == IF ~isMultiMode(cfg.mode) /\ newVal /\ ~oldVal
              THEN deselectAllItemsExcept(st.list, Single(smItem)).list
              ELSE st.list
        l2 == IF newVal THEN selectItem(l1, smItem) ELSE removeItem(l1, smItem)
    IN [st EXCEPT !.list = l2,
                  !.calls = IF cfg.onChange THEN @ + 1 ELSE @]

RECURSIVE digestRows(_, _, _)
\* one digest pass over the rows' watchers: the listener of a watcher whose
\* value changed is called and the value remembered (a listener changes no
\* watched value, so the second pass of the digest finds nothing)
digestRows(cfg, st, rows) ==
  IF rows = <<>> THEN st
  ELSE
    LET i == Head(rows) IN
    IF st.attr[i] = st.last[i]
    THEN digestRows(cfg, st, Tail(rows))
    ELSE digestRows(cfg,
                    [watchListener(cfg, st, i, st.attr[i], st.last[i])
                       EXCEPT !.last[i] = st.attr[i]],
                    Tail(rows))

\* scope.$apply(): a digest over the rendered rows
apply(cfg, st) == digestRows(cfg, st, getAllVisibleItems)

----------------------------------------------------------------------------
\* Click events

\* event.target: its tag, its input type, whether a label's `for` names an
\* input of the row ("child"), another element ("other") or is absent
\* ("none"), and whether a label holds a nested input
RowTarget == [tagName |-> "TD", type |-> "", labelFor |-> "none", nestedInput |-> FALSE]
CheckboxTarget == [tagName |-> "INPUT", type |-> "checkbox", labelFor |-> "none", nestedInput |-> FALSE]
LabelForTarget == [tagName |-> "LABEL", type |-> "", labelFor |-> "child", nestedInput |-> FALSE]
LabelNestedTarget == [tagName |-> "LABEL", type |-> "", labelFor |-> "none", nestedInput |-> TRUE]
LabelTarget == [tagName |-> "LABEL", type |-> "", labelFor |-> "other", nestedInput |-> TRUE]
Targets == {RowTarget, CheckboxTarget, LabelForTarget, LabelNestedTarget, LabelTarget}

\* The modifier keys of an event: <<ctrlKey, metaKey, shiftKey>>
Keys == {<<FALSE, FALSE, FALSE>>, <<TRUE, FALSE, FALSE>>, <<FALSE, TRUE, FALSE>>,
         <<FALSE, FALSE, TRUE>>, <<TRUE, FALSE, TRUE>>, <<FALSE, TRUE, TRUE>>}

\* `wrapped`: jQuery is on the page, the listener receives a jQuery event of
\* its own that has the browser's event as originalEvent; otherwise every
\* listener receives the browser's event itself.
\* `ignore`: a selectionModelIgnore directive on the way flagged the click:
\* the browser's event carries the flag, which is the event itself when not
\* wrapped and its originalEvent when wrapped.
Event(item, keys, target, wrapped, ignore) ==
  [item |-> item, ctrlKey |-> keys[1], metaKey |-> keys[2], shiftKey |-> keys[3],
   target |-> target, wrapped |-> wrapped,
   selectionModelIgnore |-> (ignore /\ ~wrapped),
   origIgnore |-> (ignore /\ wrapped),
   selectionModelClickHandled |-> FALSE, origHandled |-> FALSE]

\* mutant: a label holding its input is not recognised
isAssociatedLabelForOnly(target) ==
  /\ target.tagName = "LABEL"
  /\ target.labelFor = "child"

\* the guard against label + checkbox clicks
isAssociatedLabel(target) ==
  /\ target.tagName = "LABEL"
  /\ IF target.labelFor # "none"
     THEN target.labelFor = "child"
     ELSE target.nestedInput

\* mutant: the event is not marked
markHandledNot(event) == event

markHandled(event) ==
  [event EXCEPT !.selectionModelClickHandled = TRUE,
                !.origHandled = IF event.wrapped THEN TRUE ELSE @]

Outcome(st, event, branch) == [st |-> st, event |-> event, branch |-> branch]

\* mutant: the shift-range branch pushes the clicked item as the anchor
rangeClickPush(cfg, st, smItem, ctrlDown) ==
  LET peek == StackPeek(st.stacks, clickStackId(cfg.mode))
      d == deselectAllItemsExcept(st.list, Pair(smItem, peek))
      s1 == IF ~ctrlDown
            THEN apply(cfg, [st EXCEPT !.list = d.list, !.threw = d.threw])
            ELSE st
  IN apply(cfg, [s1 EXCEPT !.list = selectItemsBetween(s1.list, peek, smItem),
                           !.stacks = StackPush(s1.stacks, clickStackId(cfg.mode), smItem)])

\* the shift-range branch
rangeClick(cfg, st, smItem, ctrlDown) ==
  LET peek == StackPeek(st.stacks, clickStackId(cfg.mode))
      d == deselectAllItemsExcept(st.list, Pair(smItem, peek))
      \* the TypeError of deselectAllItemsExcept is caught by $apply
      s1 == IF ~ctrlDown
            THEN apply(cfg, [st EXCEPT !.list = d.list, !.threw = d.threw])
            ELSE st
  IN apply(cfg, [s1 EXCEPT !.list = selectItemsBetween(s1.list, peek, smItem)])

\* mutant: the toggle selects without pushing the anchor
toggleClickNoPush(cfg, st, smItem) ==
  LET isSelectedResult == ~isSelected(st.list, smItem)
      l1 == IF ~isMultiMode(cfg.mode)
            THEN deselectAllItemsExcept(st.list, Single(smItem)).list
            ELSE st.list
      l2 == IF isSelectedResult THEN selectItem(l1, smItem) ELSE removeItem(l1, smItem)
  IN apply(cfg, [st EXCEPT !.list = l2,
                           !.attr = updateSelectedAttributeValue(l2, st.attr, getAllVisibleItems)])

\* mutant: the toggle pushes the anchor also when it deselects
toggleClickAlwaysPush(cfg, st, smItem) ==
  LET isSelectedResult == ~isSelected(st.list, smItem)
      l1 == IF ~isMultiMode(cfg.mode)
            THEN deselectAllItemsExcept(st.list, Single(smItem)).list
            ELSE st.list
      l2 == IF isSelectedResult THEN selectItem(l1, smItem) ELSE removeItem(l1, smItem)
  IN apply(cfg, [st EXCEPT !.list = l2,
                           !.stacks = StackPush(st.stacks, clickStackId(cfg.mode), smItem),
                           !.attr = updateSelectedAttributeValue(l2, st.attr, getAllVisibleItems)])

\* the toggle branch
toggleClick(cfg, st, smItem) ==
  LET isSelectedResult == ~isSelected(st.list, smItem)
      l1 == IF ~isMultiMode(cfg.mode)
            THEN deselectAllItemsExcept(st.list, Single(smItem)).list
            ELSE st.list
      stk == IF isSelectedResult
             THEN StackPush(st.stacks, clickStackId(cfg.mode), smItem)
             ELSE st.stacks
      l2 == IF isSelectedResult THEN selectItem(l1, smItem) ELSE removeItem(l1, smItem)
  IN apply(cfg, [st EXCEPT !.list = l2, !.stacks = stk,
                           !.attr = updateSelectedAttributeValue(l2, st.attr, getAllVisibleItems)])

\* mutant: the plain click does not clear the other selections
plainClickKeep(cfg, st, smItem) ==
  apply(cfg, [st EXCEPT !.stacks = StackPush(st.stacks, clickStackId(cfg.mode), smItem),
                        !.list = selectItem(st.list, smItem)])

\* mutant: the plain click does not push the clicked item as the anchor
plainClickNoPush(cfg, st, smItem) ==
  LET s1 == apply(cfg, [st EXCEPT !.list = deselectAllItemsExcept(st.list, Single(smItem)).list])
  IN apply(cfg, [s1 EXCEPT !.list = selectItem(s1.list, smItem)])

\* the plain-click branch
plainClick(cfg, st, smItem) ==
  LET s1 == apply(cfg, [st EXCEPT !.list = deselectAllItemsExcept(st.list, Single(smItem)).list])
  IN apply(cfg, [s1 EXCEPT !.stacks = StackPush(s1.stacks, clickStackId(cfg.mode), smItem),
                           !.list = selectItem(s1.list, smItem)])

\* mutant: the additive mode is not taken for a held ctrl key
isCtrlKeyDownKeysOnly(cfg, event) == event.ctrlKey \/ event.metaKey

isCtrlKeyDown(cfg, event) == event.ctrlKey \/ event.metaKey \/ isModeAdditive(cfg.mode)

isCheckboxClick(cfg, event) ==
  /\ "checkbox" = cfg.type
  /\ "INPUT" = event.target.tagName
  /\ "checkbox" = event.target.type

handleClick(cfg, st, event) ==
  IF event.selectionModelIgnore \/ (event.wrapped /\ event.origIgnore)
  THEN Outcome(st, event, "ignored")
  ELSE IF event.selectionModelClickHandled \/ (event.wrapped /\ event.origHandled)
  THEN Outcome(st, event, "handled")
  ELSE
    LET ev == markHandled(event) IN
    IF isAssociatedLabel(event.target)
    THEN Outcome(st, ev, "label")
    ELSE IF event.shiftKey /\ isMultiMode(cfg.mode) /\ ~isCheckboxClick(cfg, event)
    THEN Outcome(rangeClick(cfg, st, event.item, isCtrlKeyDown(cfg, event)), ev, "range")
    ELSE IF isCtrlKeyDown(cfg, event) \/ event.shiftKey \/ isCheckboxClick(cfg, event)
    THEN Outcome(toggleClick(cfg, st, event.item), ev, "toggle")
    ELSE Outcome(plainClick(cfg, st, event.item), ev, "plain")

\* The listeners of a row: the one on the row element and, when the type is
\* checkbox, the one on the row's checkbox input.  A click on the checkbox
\* reaches the input's listener and then, bubbling, the row's.
bubbles(cfg, event) == "checkbox" = cfg.type /\ event.target = CheckboxTarget

\* The event the row's listener receives after the input's: the same
\* object, or with jQuery a new wrapper of the same originalEvent
bubbled(event) ==
  IF event.wrapped
  THEN [event EXCEPT !.selectionModelClickHandled = FALSE]
  ELSE event

\* One physical click: every delivery of the event to handleClick
dispatch(cfg, st, event) ==
  LET first == handleClick(cfg, st, event) IN
  IF bubbles(cfg, event)
  THEN LET second == handleClick(cfg, first.st, bubbled(first.event))
       IN Outcome(second.st, second.event,
                  IF second.branch = "handled" THEN first.branch ELSE second.branch)
  ELSE first

----------------------------------------------------------------------------
\* The state machine

Items == Range(allItems)

\* The change callback is registered or not; the model's state does not
\* depend on it, the count of its invocations in a store does.
Config(onChange) == [mode |-> smMode, type |-> smType, onChange |-> onChange]

\* the store at the start of a pass
Store == [list |-> selectedItemsList, attr |-> selectedAttribute, last |-> watchLast,
          stacks |-> stacks, calls |-> 0, threw |-> FALSE]

SetStore(st) ==
  /\ selectedItemsList' = st.list
  /\ selectedAttribute' = st.attr
  /\ watchLast' = st.last
  /\ stacks' = st.stacks

\* The click events of a row, as <<keys, target, wrapped, ignore>>.  Only a
\* click on the checkbox is delivered twice, so only its wrapping matters; a
\* click on a label that is not associated with an input is handled as a
\* click on the row is; a click on an associated label or an ignored click
\* returns before its keys are used.
Plain == <<FALSE, FALSE, FALSE>>
Ctrl == <<TRUE, FALSE, FALSE>>
Meta == <<FALSE, TRUE, FALSE>>
Shift == <<FALSE, FALSE, TRUE>>
EventShapes ==
  {<<keys, target, FALSE, FALSE>> :
     keys \in Keys, target \in {RowTarget, CheckboxTarget}}
  \cup {<<keys, CheckboxTarget, TRUE, FALSE>> : keys \in {Plain, Ctrl, Shift}}
  \cup {<<Plain, target, FALSE, FALSE>> :
          target \in {LabelTarget, LabelForTarget, LabelNestedTarget}}
  \cup {<<Plain, target, wrapped, TRUE>> :
          target \in {RowTarget, CheckboxTarget}, wrapped \in BOOLEAN}

EventOf(item, shape) == Event(item, shape[1], shape[2], shape[3], shape[4])

Init ==
  /\ allItems = [i \in 1..NumItems |-> i]
  /\ visibleItems = allItems
  /\ selectedItemsList = <<>>
  \* link: updateSelectedAttributeValue() with nothing selected
  /\ selectedAttribute = [i \in 1..NumItems |-> FALSE]
  /\ watchLast = [i \in 1..NumItems |-> FALSE]
  /\ stacks = [id \in StackIds |-> Undefined]
  /\ smMode \in Modes
  /\ smType \in Types
  /\ scenario = 0

\* The clicks of the end-to-end scenario, in order
ScenarioEvents ==
  <<Event(1, Plain, RowTarget, FALSE, FALSE), Event(3, Shift, RowTarget, FALSE, FALSE),
    Event(4, Ctrl, RowTarget, FALSE, FALSE), Event(2, Plain, RowTarget, FALSE, FALSE)>>

scenarioAfter(event) ==
  IF /\ scenario >= 0
     /\ scenario < Len(ScenarioEvents)
     /\ event = ScenarioEvents[scenario + 1]
  THEN scenario + 1
  ELSE -1

\* A physical click on a rendered row.
Click ==
  /\ \E item \in Range(visibleItems) :
       \E shape \in EventShapes :
         \E out \in {dispatch(Config(TRUE), Store, EventOf(item, shape))} :
           /\ SetStore(out.st)
           /\ scenario' = scenarioAfter(EventOf(item, shape))
  /\ UNCHANGED <<allItems, visibleItems, smMode, smType>>

\* The host assigns a rendered item's selected field and a digest follows.
SetSelected ==
  /\ \E item \in Range(visibleItems), value \in BOOLEAN :
       \E st \in {apply(Config(TRUE), [Store EXCEPT !.attr[item] = value])} :
         SetStore(st)
  /\ scenario' = -1
  /\ UNCHANGED <<allItems, visibleItems, smMode, smType>>

\* Largest number of items the filter removes at a time.
MaxHidden == 1

\* The link function of the rows created for the items that become visible:
\* updateSelectedAttributeValue() over the new visible items, and a $watch
\* whose first value is the field's value then; the rows of the items that
\* disappear are destroyed with their watchers.
relink(st, newVisible) ==
  LET shown == Range(newVisible) \ Range(visibleItems)
      attr == IF shown # {}
              THEN updateSelectedAttributeValue(st.list, st.attr, newVisible)
              ELSE st.attr
  IN [st EXCEPT !.attr = attr,
                !.last = [i \in DOMAIN st.last |->
                            IF i \notin Range(newVisible) THEN FALSE
                            ELSE IF i \in shown THEN attr[i]
                            ELSE st.last[i]]]

\* The host changes the filter of the repeat expression and a digest follows.
SetFilter ==
  /\ \E newHidden \in SUBSET Items :
       /\ Cardinality(newHidden) <= MaxHidden
       /\ \E newVisible \in {Filter(allItems, Items \ newHidden)} :
            /\ newVisible # visibleItems
            /\ visibleItems' = newVisible
            /\ \E st \in {digestRows(Config(TRUE), relink(Store, newVisible), newVisible)} :
                 SetStore(st)
  /\ scenario' = -1
  /\ UNCHANGED <<allItems, smMode, smType>>

Next == Click \/ SetSelected

\* The list with the host's filter left alone
Spec == Init /\ [][Next]_vars

NextFilter == Click \/ SetSelected \/ SetFilter

\* The list with a host that also changes the filter
SpecFilter == Init /\ [][NextFilter]_vars

\* The list in multi-additive mode
InitAdditive == Init /\ smMode = "multi-additive"

SpecAdditive == InitAdditive /\ [][Next]_vars

\* The collection of the end-to-end scenario, in multi mode
ScenarioItems == <<1, 2, 3, 4>>

InitScenario ==
  /\ allItems = ScenarioItems
  /\ visibleItems = allItems
  /\ selectedItemsList = <<>>
  /\ selectedAttribute = [i \in Range(ScenarioItems) |-> FALSE]
  /\ watchLast = [i \in Range(ScenarioItems) |-> FALSE]
  /\ stacks = [id \in StackIds |-> Undefined]
  /\ smMode = "multi"
  /\ smType \in Types
  /\ scenario = 0

SpecScenario == InitScenario /\ [][Next]_vars

----------------------------------------------------------------------------
\* Vocabulary of the properties

\* The clicks on a row that handleClick processes, with the given keys: not
\* flagged, on the row, on a label that is not associated with an input or
\* on the checkbox, with and without jQuery
ProcessedClicks(item, keys) ==
  {Event(item, k, target, wrapped, FALSE) :
     k \in keys, target \in {RowTarget, LabelTarget, CheckboxTarget}, wrapped \in BOOLEAN}

\* The clicks on a row that handleClick returns from at once: flagged, or on
\* a label associated with an input
UnprocessedClicks(item) ==
  {Event(item, Plain, target, wrapped, TRUE) :
     target \in {RowTarget, CheckboxTarget}, wrapped \in BOOLEAN}
  \cup {Event(item, Plain, target, FALSE, FALSE) :
          target \in {LabelForTarget, LabelNestedTarget}}

\* The store after one physical click in the current state, and after a
\* click in a store
After(event) == dispatch(Config(TRUE), Store, event).st
AfterIn(st, event) == dispatch(Config(TRUE), st, event).st

\* The anchor of the list's group
Anchor(st) == StackPeek(st.stacks, clickStackId(smMode))

Rows == Range(visibleItems)

Pos(item) == indexOfTrackBy(allItems, item)

\* The items whose positions lie between two items of the collection, inclusive
Between(a, c) ==
  {i \in Items : \/ Pos(a) <= Pos(i) /\ Pos(i) <= Pos(c)
                 \/ Pos(c) <= Pos(i) /\ Pos(i) <= Pos(a)}

NoDuplicates(list) ==
  \A i, j \in 1..Len(list) : i # j => list[i] # list[j]

----------------------------------------------------------------------------
\* The list linked with a selection the host brings ("We might be coming in
\* with a selection"): any sequence of items without duplicates; the link
\* function sets the selected fields from it.

Preselections ==
  {s \in UNION {[1..n -> 1..NumItems] : n \in 0..NumItems} : NoDuplicates(s)}

InitPreselected ==
  /\ allItems = [i \in 1..NumItems |-> i]
  /\ visibleItems = allItems
  /\ selectedItemsList \in Preselections
  /\ selectedAttribute = [i \in 1..NumItems |-> isSelected(selectedItemsList, i)]
  /\ watchLast = selectedAttribute
  /\ stacks = [id \in StackIds |-> Undefined]
  /\ smMode \in Modes
  /\ smType \in Types
  /\ scenario = -1

SpecPreselected == InitPreselected /\ [][Next]_vars

----------------------------------------------------------------------------
\* C1: after any sequence of clicks and selected-field changes, no two
\* entries of the selected-items sequence have the same track-by value.
C1_Unique == NoDuplicates(selectedItemsList)

\* Several items are selected, in an order that is not the collection's.
C1_Witness ==
  /\ Len(selectedItemsList) >= 2
  /\ selectedItemsList[1] > selectedItemsList[2]

\* C2: in mode single or multi, a processed plain click (no shift, no
\* ctrl/meta, not a checkbox click) on c leaves exactly c selected and makes
\* c the anchor, whatever was selected before.
C2_PlainClickSelectsOnly ==
  smMode \in {"single", "multi"} =>
    \A c \in Rows : \A e \in ProcessedClicks(c, {Plain}) :
      ~isCheckboxClick(Config(TRUE), e)
      => LET after == After(e)
         IN /\ after.list = <<c>>
            /\ Anchor(after) = c

\* In multi mode two other items are selected, and a plain click on a third
\* leaves it alone selected.
C2_Witness ==
  /\ smMode = "multi"
  /\ Len(selectedItemsList) >= 2
  /\ \E c \in Rows :
       /\ ~isSelected(selectedItemsList, c)
       /\ After(Event(c, Plain, RowTarget, FALSE, FALSE)).list = <<c>>

\* C3: in multi mode with nothing filtered out, a shift-click without
\* ctrl/meta (not a checkbox click) on c, the anchor a being in the
\* collection, leaves selected exactly the items between a and c inclusive.
C3_ShiftClickSelectsRange ==
  (smMode = "multi" /\ visibleItems = allItems /\ Anchor(Store) \in Items) =>
    \A c \in Rows : \A e \in ProcessedClicks(c, {Shift}) :
      ~isCheckboxClick(Config(TRUE), e)
      => Range(After(e).list) = Between(Anchor(Store), c)

\* C4: in multi mode a shift+ctrl/meta click (not a checkbox click) on c
\* with the anchor a leaves selected the items selected before and the
\* visible items between a and c inclusive, and no other.
C4_AdditiveRange ==
  (smMode = "multi" /\ Anchor(Store) \in Items) =>
    \A c \in Rows : \A e \in ProcessedClicks(c, {<<TRUE, FALSE, TRUE>>, <<FALSE, TRUE, TRUE>>}) :
      ~isCheckboxClick(Config(TRUE), e)
      => Range(After(e).list) =
           Range(selectedItemsList) \cup (Between(Anchor(Store), c) \cap Rows)

\* C5: a ctrl/meta-click on an unselected item i selects i and makes it the
\* anchor; the same click again deselects i and leaves the anchor i; in the
\* multi modes the two clicks together leave the selected set as it was.
C5_ToggleRoundTrip ==
  \A i \in Rows :
    ~isSelected(selectedItemsList, i)
    => \A e \in ProcessedClicks(i, {Ctrl, Meta}) :
         LET s1 == After(e)
             s2 == AfterIn(s1, e)
         IN /\ isSelected(s1.list, i)
            /\ Anchor(s1) = i
            /\ ~isSelected(s2.list, i)
            /\ Anchor(s2) = i
            /\ isMultiMode(smMode) => Range(s2.list) = Range(selectedItemsList)

\* In multi mode an unselected item can be ctrl-clicked while others are
\* selected and another item is the anchor; the click selects it.
C5_Witness ==
  /\ smMode = "multi"
  /\ selectedItemsList # <<>>
  /\ \E i \in Rows :
       /\ ~isSelected(selectedItemsList, i)
       /\ Anchor(Store) \notin {i, Undefined}
       /\ isSelected(After(Event(i, Ctrl, RowTarget, FALSE, FALSE)).list, i)

\* C6: in single mode the selected-items sequence never holds more than one
\* item.
C6_SingleAtMostOne == smMode = "single" => Len(selectedItemsList) <= 1

\* In single mode one item is selected while the selected field of another
\* item, selected before it, is still true.
C6_Witness ==
  /\ smMode = "single"
  /\ Len(selectedItemsList) = 1
  /\ \E j \in Rows : ~isSelected(selectedItemsList, j) /\ selectedAttribute[j]

\* C7: in multi-additive mode every click gives the selection and the anchor
\* that the same click with ctrl held gives in multi mode; a processed plain
\* click on i changes the membership of i and of no other item.
C7_AdditiveIsCtrl ==
  smMode = "multi-additive" =>
    \A i \in Rows :
      /\ \A e \in ProcessedClicks(i, Keys) \cup UnprocessedClicks(i) :
           LET additive == After(e)
               multi == dispatch([mode |-> "multi", type |-> smType, onChange |-> TRUE],
                                 Store, [e EXCEPT !.ctrlKey = TRUE]).st
           IN /\ additive.list = multi.list
              /\ additive.stacks = multi.stacks
      /\ \A e \in ProcessedClicks(i, {Plain}) :
           LET additive == After(e)
           IN /\ isSelected(additive.list, i) = ~isSelected(selectedItemsList, i)
              /\ Range(additive.list) \ {i} = Range(selectedItemsList) \ {i}

\* In multi-additive mode a plain click adds an item to a selection.
C7_Witness ==
  /\ smMode = "multi-additive"
  /\ selectedItemsList # <<>>
  /\ \E i \in Rows :
       /\ ~isSelected(selectedItemsList, i)
       /\ After(Event(i, Plain, RowTarget, FALSE, FALSE)).list = Append(selectedItemsList, i)

\* C8: in multi mode over [1,2,3,4], from an empty selection and no anchor:
\* a plain click on 1 gives {1}, then a shift-click on 3 gives {1,2,3}, then
\* a ctrl-click on 4 gives {1,2,3,4}, then a plain click on 2 gives {2}.
C8_Scenario ==
  /\ scenario = 1 => selectedItemsList = <<1>>
  /\ scenario = 2 => selectedItemsList = <<1, 2, 3>>
  /\ scenario = 3 => selectedItemsList = <<1, 2, 3, 4>>
  /\ scenario = 4 => selectedItemsList = <<2>>

\* The four clicks of the scenario were made.
C8_Witness == scenario = 4

\* C9: a click delivered to handleClick by the checkbox's listener and then
\* by the row's leaves the selection and the anchor as one delivery does.
C9_DeliveredTwice ==
  smType = "checkbox" =>
    \A i \in Rows : \A keys \in Keys, wrapped \in BOOLEAN :
      LET e == Event(i, keys, CheckboxTarget, wrapped, FALSE)
          all == After(e)
          once == handleClick(Config(TRUE), Store, e).st
      IN /\ bubbles(Config(TRUE), e)
         /\ all.list = once.list
         /\ all.stacks = once.stacks

\* With the checkbox type a click on the checkbox of an unselected row, with
\* other rows selected, leaves the row selected after both deliveries.
C9_Witness ==
  /\ smType = "checkbox"
  /\ selectedItemsList # <<>>
  /\ \E i \in Rows : \E wrapped \in BOOLEAN :
       /\ ~isSelected(selectedItemsList, i)
       /\ isSelected(After(Event(i, Plain, CheckboxTarget, wrapped, FALSE)).list, i)

\* C10: after every processed click the selected field of every visible item
\* equals the item's membership in the selected-items sequence.
C10_FieldsFollowSelection ==
  \A c \in Rows : \A e \in ProcessedClicks(c, Keys) :
    LET after == After(e)
    IN \A v \in Rows : after.attr[v] = isSelected(after.list, v)

\* C11: with a change callback registered, a processed click that changes
\* the clicked item's membership in the selection invokes the callback at
\* least once before its processing ends.
C11_CallbackOnChange ==
  \A c \in Rows : \A e \in ProcessedClicks(c, Keys) :
    LET after == After(e)
    IN isSelected(after.list, c) # isSelected(selectedItemsList, c)
       => after.calls >= 1

\* The store after the host assigned a rendered item's selected field and the
\* digest that follows
AfterSet(item, value) == apply(Config(TRUE), [Store EXCEPT !.attr[item] = value])

\* C12: when the watcher of an item sees its selected field turn true, the
\* selection becomes {item} in single mode and the prior selection with the
\* item in the multi modes; when it sees it turn false the selection loses
\* the item; the callback is invoked once in both cases; a field assigned
\* the value it had changes nothing and invokes no callback.
C12_Reconciliation ==
  \A item \in Rows : \A value \in BOOLEAN :
    LET st == AfterSet(item, value)
        old == watchLast[item]
    IN /\ value = old => st.list = selectedItemsList /\ st.calls = 0
       /\ (value /\ ~old)
          => /\ Range(st.list) = IF isMultiMode(smMode)
                                 THEN Range(selectedItemsList) \cup {item}
                                 ELSE {item}
             /\ st.calls = 1
       /\ (~value /\ old)
          => /\ Range(st.list) = Range(selectedItemsList) \ {item}
             /\ st.calls = 1

\* In single mode an item is selected and the field of another turns true:
\* the other item alone is selected afterwards.  In multi mode the field of
\* a selected item turns false while others stay selected.
C12_Witness ==
  \/ /\ smMode = "single"
     /\ selectedItemsList # <<>>
     /\ \E item \in Rows :
          /\ ~isSelected(selectedItemsList, item)
          /\ ~watchLast[item]
          /\ AfterSet(item, TRUE).list = <<item>>
  \/ /\ smMode = "multi"
     /\ Len(selectedItemsList) >= 2
     /\ \E item \in Rows :
          /\ isSelected(selectedItemsList, item)
          /\ watchLast[item]
          /\ Len(AfterSet(item, FALSE).list) = Len(selectedItemsList) - 1

\* C13: in multi mode with no anchor ever pushed, a shift-click (not a
\* checkbox click) on c raises no error and leaves exactly c selected
\* without ctrl/meta, and the prior selection with c with ctrl/meta.
C13_ShiftClickNoAnchor ==
  (smMode = "multi" /\ Anchor(Store) = Undefined) =>
    \A c \in Rows :
      \A e \in ProcessedClicks(c, {Shift, <<TRUE, FALSE, TRUE>>, <<FALSE, TRUE, TRUE>>}) :
        ~isCheckboxClick(Config(TRUE), e)
        => LET after == After(e)
           IN /\ ~after.threw
              /\ Range(after.list) = IF e.ctrlKey \/ e.metaKey
                                     THEN Range(selectedItemsList) \cup {c}
                                     ELSE {c}

\* C14: with the checkbox type a click on the checkbox of a row changes the
\* membership of no item but the row's, in every mode and with any keys.
C14_CheckboxClickOwnRow ==
  smType = "checkbox" =>
    \A i \in Rows : \A keys \in Keys, wrapped \in BOOLEAN :
      LET after == After(Event(i, keys, CheckboxTarget, wrapped, FALSE))
      IN Range(after.list) \ {i} = Range(selectedItemsList) \ {i}

\* The clicks on a row that are flagged selectionModelIgnore (on the event,
\* or with jQuery on its originalEvent) or whose target is a label tied to
\* an input of the row, with any keys
GuardedClicks(item) ==
  {Event(item, keys, target, wrapped, TRUE) :
     keys \in Keys, target \in {RowTarget, CheckboxTarget}, wrapped \in BOOLEAN}
  \cup {Event(item, keys, target, FALSE, FALSE) :
          keys \in Keys, target \in {LabelForTarget, LabelNestedTarget}}

\* C15: a click flagged selectionModelIgnore, or on a label tied to an input
\* of the same row, leaves the selected-items sequence, the anchor stack and
\* every selected field as they were.
C15_GuardedClickNoChange ==
  \A i \in Rows : \A e \in GuardedClicks(i) :
    LET after == After(e)
    IN /\ after.list = selectedItemsList
       /\ after.stacks = stacks
       /\ after.attr = selectedAttribute

\* Items are selected, and a click on an unselected row that would change
\* the selection is returned from at the label guard and at the ignore guard.
C15_Witness ==
  /\ selectedItemsList # <<>>
  /\ \E i \in Rows :
       /\ ~isSelected(selectedItemsList, i)
       /\ After(Event(i, Plain, RowTarget, FALSE, FALSE)).list # selectedItemsList
       /\ dispatch(Config(TRUE), Store,
                   Event(i, Plain, LabelNestedTarget, FALSE, FALSE)).branch = "label"
       /\ dispatch(Config(TRUE), Store,
                   Event(i, Plain, RowTarget, TRUE, TRUE)).branch = "ignored"

\* A track-by value no item of the collection has
Absent == NumItems + 1

\* C16: deselectAllItemsExcept([A, B]) with exactly one of A and B matching
\* an item of the collection leaves exactly the matched item selected,
\* wherever it is in the collection and whatever was selected.
C16_OneEndpointMatched ==
  \A a \in Items :
    /\ deselectAllItemsExcept(selectedItemsList, Pair(a, Absent)).list = <<a>>
    /\ deselectAllItemsExcept(selectedItemsList, Pair(Absent, a)).list = <<a>>

\* The processed clicks on a row that do not take the shift-range branch: a
\* plain click, a ctrl/meta click, a shift-click in single mode, a click on
\* the checkbox with the checkbox type
NonRangeClicks(item) ==
  {e \in {EventOf(item, shape) : shape \in EventShapes} :
     /\ ~e.selectionModelIgnore /\ ~e.origIgnore
     /\ ~isAssociatedLabel(e.target)
     /\ ~(e.shiftKey /\ isMultiMode(smMode) /\ ~isCheckboxClick(Config(TRUE), e))}

\* C17 as stated: after every processed non-range click on c the anchor is
\* c, whether the click selected c or deselected it.
C17_AnchorIsClicked ==
  \A c \in Rows : \A e \in NonRangeClicks(c) :
    Anchor(After(e)) = c

\* C17 as amended: after a processed non-range click on c that leaves c
\* selected (a plain click, or a toggle of an unselected c) the anchor is c;
\* after a toggle that deselects c the anchor stack is as it was.
C17_AnchorAfterClick ==
  \A c \in Rows : \A e \in NonRangeClicks(c) :
    LET out == dispatch(Config(TRUE), Store, e)
    IN IF out.branch = "plain" \/ ~isSelected(selectedItemsList, c)
       THEN Anchor(out.st) = c
       ELSE out.st.stacks = stacks

\* In multi mode a selected item that is not the anchor is ctrl-clicked: it
\* is deselected and the anchor stays the other item.
C17_Witness ==
  /\ smMode = "multi"
  /\ \E c \in Rows :
       /\ isSelected(selectedItemsList, c)
       /\ Anchor(Store) \in Items \ {c}
       /\ ~isSelected(After(Event(c, Ctrl, RowTarget, FALSE, FALSE)).list, c)
       /\ Anchor(After(Event(c, Ctrl, RowTarget, FALSE, FALSE))) = Anchor(Store)

\* The previously selected items still selected after a click
Kept(event) == Range(After(event).list) \cap Range(selectedItemsList)

\* The range a shift-click on c is to select: the items between the anchor
\* and c, or c alone with no anchor
ShiftRange(c) ==
  IF Anchor(Store) \in Items THEN Between(Anchor(Store), c) ELSE {c}

\* C18 (plain click): with items filtered out, a plain click on c in single
\* or multi mode leaves no previously selected item but c selected, the
\* filtered-out ones included.
C18_PlainClickClearsHidden ==
  (visibleItems # allItems /\ smMode \in {"single", "multi"}) =>
    \A c \in Rows : \A e \in ProcessedClicks(c, {Plain}) :
      ~isCheckboxClick(Config(TRUE), e) => Kept(e) \subseteq {c}

\* C18 (shift-click): with items filtered out, a shift-click without
\* ctrl/meta on c in multi mode leaves no previously selected item outside
\* the range selected, the filtered-out ones included.
C18_ShiftClickClearsHidden ==
  (visibleItems # allItems /\ smMode = "multi") =>
    \A c \in Rows : \A e \in ProcessedClicks(c, {Shift}) :
      ~isCheckboxClick(Config(TRUE), e) => Kept(e) \subseteq ShiftRange(c)

\* C18: with a filter active, a plain click in single or multi mode, or a
\* shift-click without ctrl/meta in multi mode, removes from the selection
\* every previously selected item outside the newly selected item or range,
\* including the items filtered out of the visible collection.
C18_FilteredOutDeselected ==
  C18_PlainClickClearsHidden /\ C18_ShiftClickClearsHidden

\* The clicks on a row that take the shift-range branch in the multi modes:
\* shift held, with or without ctrl/meta, not a checkbox click
RangeClicks(item) ==
  {e \in {Event(item, keys, target, FALSE, FALSE) :
            keys \in {Shift, <<TRUE, FALSE, TRUE>>, <<FALSE, TRUE, TRUE>>},
            target \in {RowTarget, LabelTarget, CheckboxTarget}} :
     ~isCheckboxClick(Config(TRUE), e)}

\* The deliveries of a click that an earlier listener already handled: the
\* mark is on the event, or with jQuery on its originalEvent
HandledDeliveries(item) ==
  {markHandled(Event(item, keys, target, FALSE, FALSE)) :
     keys \in Keys, target \in {RowTarget, CheckboxTarget}}
  \cup {bubbled(markHandled(Event(item, keys, target, TRUE, FALSE))) :
          keys \in Keys, target \in {RowTarget, CheckboxTarget}}

\* C19: a shift-range click in the multi modes, an ignored click, a delivery
\* of a click already handled and the reconciliation of an assigned selected
\* field leave the anchor of every group as it was.
C19_AnchorUntouched ==
  \A c \in Rows :
    /\ isMultiMode(smMode) => \A e \in RangeClicks(c) : After(e).stacks = stacks
    /\ \A e \in UnprocessedClicks(c) : After(e).stacks = stacks
    /\ \A e \in HandledDeliveries(c) :
         LET out == handleClick(Config(TRUE), Store, e)
         IN out.branch = "handled" /\ out.st.stacks = stacks
    /\ \A value \in BOOLEAN : AfterSet(c, value).stacks = stacks

\* In multi mode a shift-click on an item that is not the anchor changes the
\* selection and leaves the anchor; assigning a field changes the selection
\* and leaves the anchor.
C19_Witness ==
  /\ smMode = "multi"
  /\ Anchor(Store) \in Items
  /\ \E c \in Rows \ {Anchor(Store)} :
       /\ After(Event(c, Shift, RowTarget, FALSE, FALSE)).list # selectedItemsList
       /\ After(Event(c, Shift, RowTarget, FALSE, FALSE)).stacks = stacks
       /\ AfterSet(c, ~selectedAttribute[c]).list # selectedItemsList

\* C20: deselectAllItemsExcept(undefined), on a non-empty collection and
\* whatever is selected, raises no error and leaves the selected-items
\* sequence empty.
C20_DeselectAllUndefined ==
  allItems # <<>> =>
    LET d == deselectAllItemsExcept(selectedItemsList, Single(Undefined))
    IN ~d.threw /\ d.list = <<>>

====
